---- MODULE Spec2Model ----
(***************************************************************************)
(* BrewHaven Cafe API (src/main.py): the cart / order handlers and the     *)
(* bearer-token gate, as a state machine over the three Cosmos containers. *)
(* Every request runs in a slot; each store call of a handler is one step, *)
(* so that requests interleave between their query and their writes.       *)
(***************************************************************************)
EXTENDS Integers, Sequences, FiniteSets, TLC

\* ------------------------------------------------------------------ bounds

\* Number of requests received in one run: concurrent runs, sequential runs,
\* runs of the token gate.
MaxConcRequests == 4
MaxSeqRequests == 4
MaxGateRequests == 3
\* Number of clock ticks in one run, and the minutes one tick advances the clock.
MaxTicks == 4
TickMinutes == 20
\* Number of tokens auth_login hands out in one run.
MaxTokens == 2
MaxDupRequests == 4
MaxCatalogRequests == 3
MaxTwinRequests == 2
MaxTripRequests == 5
MaxLiveRequests == 3

\* Request slots (requests in flight at the same time).
Slots == {1, 2}
\* Product ids a caller supplies: a seeded product and an unknown id.
ProductIds == {"1", "99"}
\* Quantities a caller supplies (CartItem.quantity is an unvalidated int).
Quantities == {0, 1, 2}

\* ------------------------------------------------------- program constants

DEMO_USERNAME == "barista"
DEMO_PASSWORD == "coffee123"
JWT_SECRET_KEY == "brewhaven-dev-secret-key"
ACCESS_TOKEN_EXPIRE_MINUTES == 60
DEFAULT_USER == "cafe_guest"

\* Python's None.
None == "None"

VARIABLES
    cosmos,     \* TRUE iff init_cosmos set the three container handles
    products,   \* products container: sequence of product documents
    cart,       \* cart container: sequence of cart-line documents
    orders,     \* orders container: sequence of order documents
    nextId,     \* the next cart-line id uuid4 hands out
    now,        \* datetime.utcnow(), in minutes
    received,   \* number of requests received so far
    reqs,       \* slot -> the request running in it
    out,        \* the request answered last, with its response
    issued,     \* tokens handed out by auth_login so far
    login,      \* outcome of the last auth_login / get_current_user call
    pre,        \* history: the cart and orders containers when the last request arrived
    prev,       \* history: out and pre of the request answered before the one in out
    twin        \* history: a run's requests and answers, and those of its second run

vars == <<cosmos, products, cart, orders, nextId, now, received, reqs, out, issued, login,
          pre, prev, twin>>

\* ------------------------------------------------------------ bearer tokens

\* jwt.encode(payload, key): the payload and the key that signed it.
jwt_encode(payload, key) == [sub |-> payload.sub, exp |-> payload.exp, key |-> key]

\* Mutant of jwt_decode: the expiry claim is not validated.
jwt_decode_no_expiry(token, key, t) ==
    IF token.key # key THEN [ok |-> FALSE, sub |-> None]
    ELSE [ok |-> TRUE, sub |-> token.sub]

\* jwt.decode(token, key) at time t: JWTError on a signature made with another
\* key, ExpiredSignatureError (a JWTError) once exp < t; else the payload.
jwt_decode(token, key, t) ==
    IF token.key # key THEN [ok |-> FALSE, sub |-> None]
    ELSE IF token.exp < t THEN [ok |-> FALSE, sub |-> None]
    ELSE [ok |-> TRUE, sub |-> token.sub]

\* create_access_token({"sub": username}) at time t.
create_access_token(username, t) ==
    jwt_encode([sub |-> username, exp |-> t + ACCESS_TOKEN_EXPIRE_MINUTES],
               JWT_SECRET_KEY)

\* An Authorization header: absent (Header(None)), or a scheme prefix and a token.
NoHeader == [given |-> FALSE, prefix |-> "", token |-> [sub |-> None, exp |-> 0, key |-> ""]]
Bearer(token) == [given |-> TRUE, prefix |-> "Bearer ", token |-> token]
Basic(token) == [given |-> TRUE, prefix |-> "Basic ", token |-> token]

\* Mutant of get_current_user: a payload without a subject is let through.
get_current_user_no_sub_check(authorization, t) ==
    IF ~authorization.given \/ authorization.prefix # "Bearer "
    THEN [status |-> 401, user |-> None, detail |-> "Not authenticated"]
    ELSE LET payload == jwt_decode(authorization.token, JWT_SECRET_KEY, t)
         IN  IF ~payload.ok
             THEN [status |-> 401, user |-> None, detail |-> "Invalid or expired token"]
             ELSE [status |-> 200, user |-> payload.sub, detail |-> ""]

\* get_current_user(authorization) at time t: the username, or HTTP 401.
get_current_user(authorization, t) ==
    IF ~authorization.given \/ authorization.prefix # "Bearer "
    THEN [status |-> 401, user |-> None, detail |-> "Not authenticated"]
    ELSE LET payload == jwt_decode(authorization.token, JWT_SECRET_KEY, t)
         IN  IF ~payload.ok
             THEN [status |-> 401, user |-> None, detail |-> "Invalid or expired token"]
             ELSE IF payload.sub = None
             THEN [status |-> 401, user |-> None, detail |-> "Invalid token payload"]
             ELSE [status |-> 200, user |-> payload.sub, detail |-> ""]

\* Mutant of auth_login: "and" for "or", so one matching field is enough.
auth_login_either_field(username, password, t) ==
    IF username # DEMO_USERNAME /\ password # DEMO_PASSWORD
    THEN [status |-> 401, detail |-> "Invalid credentials", token |-> NoHeader.token]
    ELSE [status |-> 200, detail |-> "", token |-> create_access_token(username, t)]

\* auth_login(body) at time t: a token for the demo pair, HTTP 401 otherwise.
auth_login(username, password, t) ==
    IF username # DEMO_USERNAME \/ password # DEMO_PASSWORD
    THEN [status |-> 401, detail |-> "Invalid credentials", token |-> NoHeader.token]
    ELSE [status |-> 200, detail |-> "", token |-> create_access_token(username, t)]

\* ------------------------------------------------------------- the stores

\* seed_products(): the first two documents of the seeded menu.
SeedProducts ==
    << [id |-> "1", name |-> "Espresso Shot", category |-> "Coffee",
        price |-> 275, stock |-> 80, image |-> "cup"],
       [id |-> "2", name |-> "Cappuccino", category |-> "Coffee",
        price |-> 425, stock |-> 60, image |-> "pot"] >>

\* "SELECT * FROM c WHERE c.user_id = @user_id", in the container's order.
query_user(store, user) == SelectSeq(store, LAMBDA d : d.user_id = user)

\* "SELECT * FROM c WHERE c.user_id = @user_id AND c.product_id = @product_id".
query_user_product(store, user, pid) ==
    SelectSeq(store, LAMBDA d : d.user_id = user /\ d.product_id = pid)

\* "SELECT * FROM c WHERE c.id = @pid" on the products container.
query_product(store, pid) == SelectSeq(store, LAMBDA d : d.id = pid)

HasId(store, id) == \E i \in 1..Len(store) : store[i].id = id

\* Mutant of create_item: the new document takes the place of the last one.
create_item_over_last(store, doc) ==
    IF store = <<>> THEN <<doc>> ELSE [store EXCEPT ![Len(store)] = doc]

\* container.create_item(doc): a new document (the id is fresh).
create_item(store, doc) == Append(store, doc)

\* Mutant of upsert_item: the document is all that is left in the container.
upsert_item_alone(store, doc) == <<doc>>

\* container.upsert_item(doc): replaces the document with doc's id, or inserts.
upsert_item(store, doc) ==
    IF HasId(store, doc.id)
    THEN [i \in 1..Len(store) |-> IF store[i].id = doc.id THEN doc ELSE store[i]]
    ELSE Append(store, doc)

\* Mutant of delete_item: the whole partition is deleted.
delete_item_partition(store, id) == <<>>

\* container.delete_item(id, partition_key): removes the document with that id
\* (CosmosResourceNotFoundError when there is none: see delete_step).
delete_item(store, id) == SelectSeq(store, LAMBDA d : d.id # id)

\* ------------------------------------------------------------ the requests

Kinds == {"get_cart", "add_to_cart", "remove_from_cart", "create_order", "get_orders"}

NoResp == [status |-> 0, error |-> "", message |-> "", detail |-> "",
           order |-> <<>>, list |-> <<>>]
\* raise HTTPException(status_code=401, detail=...)
Http401(detail) == [NoResp EXCEPT !.status = 401, !.detail = detail]
\* return {"error": ...}
ErrorBody(msg) == [NoResp EXCEPT !.status = 200, !.error = msg]
\* return {"message": ...}
MessageBody(msg) == [NoResp EXCEPT !.status = 200, !.message = msg]
\* return order
OrderBody(order) == [NoResp EXCEPT !.status = 200, !.order = <<order>>]
\* return a list
ListBody(list) == [NoResp EXCEPT !.status = 200, !.list = list]

IdleReq == [kind |-> "none", pc |-> "idle", authorization |-> NoHeader,
            current_user |-> None, product_id |-> None, quantity |-> 0,
            items |-> <<>>, order |-> <<>>]

\* Mutant of NoDatabase: every handler answers an empty list.
NoDatabase_empty_list(kind) == ListBody(<<>>)

\* What each handler returns when its container handles are None.
NoDatabase(kind) ==
    IF kind \in {"get_cart", "get_orders"} THEN ListBody(<<>>)
    ELSE ErrorBody("Database not available")

\* Mutant of OnException: create_order lets the exception through, which the
\* framework answers with a 500.
OnException_uncaught_in_create_order(kind) ==
    IF kind = "get_orders" THEN ListBody(<<>>)
    ELSE IF kind = "create_order"
         THEN [NoResp EXCEPT !.status = 500, !.detail = "Internal Server Error"]
         ELSE ErrorBody("store error")

\* What each handler's except clause returns.
OnException(kind) ==
    IF kind = "get_orders" THEN ListBody(<<>>) ELSE ErrorBody("store error")

\* The handler of request r returns resp: what the caller gets to see.
Answer(r, resp) ==
    [kind |-> r.kind, authorization |-> r.authorization, current_user |-> r.current_user,
     product_id |-> r.product_id, quantity |-> r.quantity, resp |-> resp]

\* add_to_cart's new cart line.
new_cart_item(id, pid, q) ==
    [id |-> id, user_id |-> DEFAULT_USER, product_id |-> pid, quantity |-> q]

\* Mutant of add_to_cart_write: the existing line is not looked at.
add_to_cart_always_creates(store, existing, pid, q, id) ==
    create_item(store, new_cart_item(id, pid, q))

\* Mutant of add_to_cart_write: the quantity is added to the existing one.
add_to_cart_increments(store, existing, pid, q, id) ==
    IF existing # <<>>
    THEN upsert_item(store, [existing[1] EXCEPT !.quantity = @ + q])
    ELSE create_item(store, new_cart_item(id, pid, q))

\* Mutant of add_to_cart_write: a product missing from the catalog gets no line.
add_to_cart_known_products_only(store, existing, pid, q, id) ==
    IF query_product(products, pid) = <<>> THEN store
    ELSE IF existing # <<>>
    THEN upsert_item(store, [existing[1] EXCEPT !.quantity = q])
    ELSE create_item(store, new_cart_item(id, pid, q))

\* add_to_cart after its query: overwrite the first existing line's quantity
\* and upsert it, or create a line with a fresh id.
add_to_cart_write(store, existing, pid, q, id) ==
    IF existing # <<>>
    THEN upsert_item(store, [existing[1] EXCEPT !.quantity = q])
    ELSE create_item(store, new_cart_item(id, pid, q))

\* Mutant of new_order: the items are taken from the snapshot back to front.
new_order_reversed(id, cart_items, t) ==
    [id |-> id, user_id |-> DEFAULT_USER,
     items |-> [i \in 1..Len(cart_items) |->
                  [product_id |-> cart_items[Len(cart_items) + 1 - i].product_id,
                   quantity |-> cart_items[Len(cart_items) + 1 - i].quantity]],
     status |-> "confirmed", created_at |-> t]

\* create_order's order document.
new_order(id, cart_items, t) ==
    [id |-> id, user_id |-> DEFAULT_USER,
     items |-> [i \in 1..Len(cart_items) |->
                  [product_id |-> cart_items[i].product_id,
                   quantity |-> cart_items[i].quantity]],
     status |-> "confirmed", created_at |-> t]

\* Mutant of enrich: a line whose product is missing is listed all the same.
RECURSIVE enrich_keeps_missing(_, _)
enrich_keeps_missing(items, prods) ==
    IF items = <<>> THEN <<>>
    ELSE LET product_items == query_product(prods, Head(items).product_id)
         IN  IF product_items = <<>>
             THEN << [id |-> Head(items).product_id, name |-> "", price |-> 0,
                      quantity |-> Head(items).quantity,
                      image |-> "", category |-> ""] >>
                  \o enrich_keeps_missing(Tail(items), prods)
             ELSE << [id |-> product_items[1].id, name |-> product_items[1].name,
                      price |-> product_items[1].price,
                      quantity |-> Head(items).quantity,
                      image |-> product_items[1].image,
                      category |-> product_items[1].category] >>
                  \o enrich_keeps_missing(Tail(items), prods)

\* get_cart's join: one entry per line whose product exists.
RECURSIVE enrich(_, _)
enrich(items, prods) ==
    IF items = <<>> THEN <<>>
    ELSE LET product_items == query_product(prods, Head(items).product_id)
         IN  IF product_items = <<>> THEN enrich(Tail(items), prods)
             ELSE << [id |-> product_items[1].id, name |-> product_items[1].name,
                      price |-> product_items[1].price,
                      quantity |-> Head(items).quantity,
                      image |-> product_items[1].image,
                      category |-> product_items[1].category] >>
                  \o enrich(Tail(items), prods)

\* Authorization headers a caller sends at time t: none, a non-Bearer scheme,
\* and Bearer tokens that are valid, forged, expired or without a subject.
ValidToken(sub, t) == create_access_token(sub, t)
ForgedToken(t) == jwt_encode([sub |-> DEMO_USERNAME, exp |-> t + ACCESS_TOKEN_EXPIRE_MINUTES], "other-key")
ExpiredToken(t) == create_access_token(DEMO_USERNAME, t - ACCESS_TOKEN_EXPIRE_MINUTES - 1)
NoSubToken(t) == create_access_token(None, t)
Headers(t) ==
    { NoHeader, Basic(ValidToken(DEMO_USERNAME, t)), Bearer(ValidToken(DEMO_USERNAME, t)),
      Bearer(ValidToken("alice", t)), Bearer(ForgedToken(t)), Bearer(ExpiredToken(t)),
      Bearer(NoSubToken(t)) }

\* Slot s goes on with its handler in state r.
Continue(s, r) == reqs' = [reqs EXCEPT ![s] = r] /\ out' = out

\* Slot s's handler returns resp (or raises it): the slot is free again.
Return(s, r, resp) == reqs' = [reqs EXCEPT ![s] = IdleReq] /\ out' = Answer(r, resp)

\* A request arrives in the first free slot: the Depends(get_current_user)
\* gate, then the handler's check of its container handles.
Receive(s, kind, h, pid, q) ==
    /\ reqs[s].pc = "idle"
    /\ \A t \in Slots : t < s => reqs[t].pc # "idle"
    /\ received' = received + 1
    /\ LET u == get_current_user(h, now)
           r == [IdleReq EXCEPT !.kind = kind, !.authorization = h,
                                !.current_user = u.user,
                                !.product_id = pid, !.quantity = q]
       IN  IF u.status = 401 THEN Return(s, r, Http401(u.detail))
           ELSE IF ~cosmos THEN Return(s, r, NoDatabase(kind))
           ELSE Continue(s, [r EXCEPT !.pc = "query"])
    /\ UNCHANGED <<cosmos, products, cart, orders, nextId, now, issued, login>>

\* get_cart: the cart query.
get_cart_query(s) ==
    /\ reqs[s].kind = "get_cart" /\ reqs[s].pc = "query"
    /\ Continue(s, [reqs[s] EXCEPT !.items = query_user(cart, DEFAULT_USER), !.pc = "enrich"])
    /\ UNCHANGED <<cosmos, products, cart, orders, nextId, now, received, issued, login>>

\* get_cart: the product queries, one per line, and the response.
get_cart_enrich(s) ==
    /\ reqs[s].kind = "get_cart" /\ reqs[s].pc = "enrich"
    /\ Return(s, reqs[s], ListBody(enrich(reqs[s].items, products)))
    /\ UNCHANGED <<cosmos, products, cart, orders, nextId, now, received, issued, login>>

\* add_to_cart: the query for the existing line.
add_to_cart_query(s) ==
    /\ reqs[s].kind = "add_to_cart" /\ reqs[s].pc = "query"
    /\ Continue(s, [reqs[s] EXCEPT
                      !.items = query_user_product(cart, DEFAULT_USER, reqs[s].product_id),
                      !.pc = "write"])
    /\ UNCHANGED <<cosmos, products, cart, orders, nextId, now, received, issued, login>>

\* Mutant of add_to_cart_store: a new line is filed under the caller's name.
add_to_cart_store_under_caller(s) ==
    /\ reqs[s].kind = "add_to_cart" /\ reqs[s].pc = "write"
    /\ cart' = IF reqs[s].items # <<>>
               THEN upsert_item(cart, [reqs[s].items[1] EXCEPT !.quantity = reqs[s].quantity])
               ELSE create_item(cart, [new_cart_item(nextId, reqs[s].product_id, reqs[s].quantity)
                                         EXCEPT !.user_id = reqs[s].current_user])
    /\ nextId' = IF reqs[s].items = <<>> THEN nextId + 1 ELSE nextId
    /\ Return(s, reqs[s], MessageBody("Saved successfully"))
    /\ UNCHANGED <<cosmos, products, orders, now, received, issued, login>>

\* add_to_cart: the upsert or the create, and the response.
add_to_cart_store(s) ==
    /\ reqs[s].kind = "add_to_cart" /\ reqs[s].pc = "write"
    /\ cart' = add_to_cart_write(cart, reqs[s].items, reqs[s].product_id,
                                 reqs[s].quantity, nextId)
    /\ nextId' = IF reqs[s].items = <<>> THEN nextId + 1 ELSE nextId
    /\ Return(s, reqs[s], MessageBody("Saved successfully"))
    /\ UNCHANGED <<cosmos, products, orders, now, received, issued, login>>

\* Mutant of remove_from_cart_query: a product with no line is an error.
remove_from_cart_missing_is_error(s) ==
    /\ reqs[s].kind = "remove_from_cart" /\ reqs[s].pc = "query"
    /\ LET items == query_user_product(cart, DEFAULT_USER, reqs[s].product_id)
       IN  IF items = <<>> THEN Return(s, reqs[s], ErrorBody("Item not in cart"))
           ELSE Continue(s, [reqs[s] EXCEPT !.items = items, !.pc = "delete"])
    /\ UNCHANGED <<cosmos, products, cart, orders, nextId, now, received, issued, login>>

\* Mutant of remove_from_cart_query: every line of the owner is selected.
remove_from_cart_query_all_lines(s) ==
    /\ reqs[s].kind = "remove_from_cart" /\ reqs[s].pc = "query"
    /\ LET items == query_user(cart, DEFAULT_USER)
       IN  IF items = <<>> THEN Return(s, reqs[s], MessageBody("Removed successfully"))
           ELSE Continue(s, [reqs[s] EXCEPT !.items = items, !.pc = "delete"])
    /\ UNCHANGED <<cosmos, products, cart, orders, nextId, now, received, issued, login>>

\* remove_from_cart: the query; with no matching line the loop is empty.
remove_from_cart_query(s) ==
    /\ reqs[s].kind = "remove_from_cart" /\ reqs[s].pc = "query"
    /\ LET items == query_user_product(cart, DEFAULT_USER, reqs[s].product_id)
       IN  IF items = <<>> THEN Return(s, reqs[s], MessageBody("Removed successfully"))
           ELSE Continue(s, [reqs[s] EXCEPT !.items = items, !.pc = "delete"])
    /\ UNCHANGED <<cosmos, products, cart, orders, nextId, now, received, issued, login>>

\* Mutant of delete_step: when the document is gone the handler starts over
\* from its query.
delete_step_starts_over(s, body) ==
    LET item == Head(reqs[s].items)
        rest == Tail(reqs[s].items)
    IN  IF ~HasId(cart, item.id)
        THEN /\ Continue(s, [reqs[s] EXCEPT !.pc = "query"])
             /\ cart' = cart
        ELSE /\ cart' = delete_item(cart, item.id)
             /\ IF rest = <<>> THEN Return(s, reqs[s], body)
                ELSE Continue(s, [reqs[s] EXCEPT !.items = rest])

\* One delete_item of a handler's loop over its items: the document goes, or
\* CosmosResourceNotFoundError lands in the except clause; after the last
\* item the handler returns body.
delete_step(s, body) ==
    LET item == Head(reqs[s].items)
        rest == Tail(reqs[s].items)
    IN  IF ~HasId(cart, item.id)
        THEN /\ Return(s, reqs[s], OnException(reqs[s].kind))
             /\ cart' = cart
        ELSE /\ cart' = delete_item(cart, item.id)
             /\ IF rest = <<>> THEN Return(s, reqs[s], body)
                ELSE Continue(s, [reqs[s] EXCEPT !.items = rest])

\* Mutant of remove_from_cart_delete: only the first matching line is deleted.
remove_from_cart_delete_first_only(s) ==
    /\ reqs[s].kind = "remove_from_cart" /\ reqs[s].pc = "delete"
    /\ cart' = delete_item(cart, Head(reqs[s].items).id)
    /\ Return(s, reqs[s], MessageBody("Removed successfully"))
    /\ UNCHANGED <<cosmos, products, orders, nextId, now, received, issued, login>>

remove_from_cart_delete(s) ==
    /\ reqs[s].kind = "remove_from_cart" /\ reqs[s].pc = "delete"
    /\ delete_step(s, MessageBody("Removed successfully"))
    /\ UNCHANGED <<cosmos, products, orders, nextId, now, received, issued, login>>

\* create_order: the cart query.
create_order_query(s) ==
    /\ reqs[s].kind = "create_order" /\ reqs[s].pc = "query"
    /\ Continue(s, [reqs[s] EXCEPT !.items = query_user(cart, DEFAULT_USER), !.pc = "persist"])
    /\ UNCHANGED <<cosmos, products, cart, orders, nextId, now, received, issued, login>>

\* Mutant of create_order_persist: an empty cart is turned away.
create_order_rejects_empty(s) ==
    /\ reqs[s].kind = "create_order" /\ reqs[s].pc = "persist"
    /\ LET order == new_order(Len(orders) + 1, reqs[s].items, now)
       IN  IF reqs[s].items = <<>>
           THEN orders' = orders /\ Return(s, reqs[s], ErrorBody("Cart is empty"))
           ELSE /\ orders' = create_item(orders, order)
                /\ Continue(s, [reqs[s] EXCEPT !.order = <<order>>, !.pc = "delete"])
    /\ UNCHANGED <<cosmos, products, cart, nextId, now, received, issued, login>>

\* Mutant of create_order_persist: the ordered products' stock is brought down.
create_order_takes_stock(s) ==
    /\ reqs[s].kind = "create_order" /\ reqs[s].pc = "persist"
    /\ LET order == new_order(Len(orders) + 1, reqs[s].items, now)
       IN  /\ orders' = create_item(orders, order)
           /\ IF reqs[s].items = <<>> THEN Return(s, reqs[s], OrderBody(order))
              ELSE Continue(s, [reqs[s] EXCEPT !.order = <<order>>, !.pc = "delete"])
    /\ products' = [k \in 1..Len(products) |->
                      IF \E i \in 1..Len(reqs[s].items) :
                           reqs[s].items[i].product_id = products[k].id
                      THEN [products[k] EXCEPT !.stock = @ - 1]
                      ELSE products[k]]
    /\ UNCHANGED <<cosmos, cart, nextId, now, received, issued, login>>

\* create_order: build the order and persist it; with an empty snapshot the
\* delete loop is empty and the order is returned.
create_order_persist(s) ==
    /\ reqs[s].kind = "create_order" /\ reqs[s].pc = "persist"
    /\ LET order == new_order(Len(orders) + 1, reqs[s].items, now)
       IN  /\ orders' = create_item(orders, order)
           /\ IF reqs[s].items = <<>> THEN Return(s, reqs[s], OrderBody(order))
              ELSE Continue(s, [reqs[s] EXCEPT !.order = <<order>>, !.pc = "delete"])
    /\ UNCHANGED <<cosmos, products, cart, nextId, now, received, issued, login>>

\* Mutant of create_order_delete: the owner's cart is cleared as it stands.
create_order_delete_clears_cart(s) ==
    /\ reqs[s].kind = "create_order" /\ reqs[s].pc = "delete"
    /\ cart' = SelectSeq(cart, LAMBDA d : d.user_id # DEFAULT_USER)
    /\ Return(s, reqs[s], OrderBody(reqs[s].order[1]))
    /\ UNCHANGED <<cosmos, products, orders, nextId, now, received, issued, login>>

\* create_order: one delete of a snapshotted line.
create_order_delete(s) ==
    /\ reqs[s].kind = "create_order" /\ reqs[s].pc = "delete"
    /\ delete_step(s, OrderBody(reqs[s].order[1]))
    /\ UNCHANGED <<cosmos, products, orders, nextId, now, received, issued, login>>

\* Mutant of get_orders_query: orders without items are filtered out.
get_orders_query_skips_empty(s) ==
    /\ reqs[s].kind = "get_orders" /\ reqs[s].pc = "query"
    /\ Return(s, reqs[s], ListBody(SelectSeq(query_user(orders, DEFAULT_USER),
                                              LAMBDA o : o.items # <<>>)))
    /\ UNCHANGED <<cosmos, products, cart, orders, nextId, now, received, issued, login>>

\* get_orders: the query and the response.
get_orders_query(s) ==
    /\ reqs[s].kind = "get_orders" /\ reqs[s].pc = "query"
    /\ Return(s, reqs[s], ListBody(query_user(orders, DEFAULT_USER)))
    /\ UNCHANGED <<cosmos, products, cart, orders, nextId, now, received, issued, login>>

\* A store call raises (CosmosHttpResponseError, a timeout): the handler's
\* except clause answers and nothing is written.
StoreCalls == {"query", "enrich", "write", "persist", "delete"}
store_failure(s) ==
    /\ reqs[s].pc \in StoreCalls
    /\ Return(s, reqs[s], OnException(reqs[s].kind))
    /\ UNCHANGED <<cosmos, products, cart, orders, nextId, now, received, issued, login>>

\* ------------------------------------------------------ the catalog handlers

\* What a products_container.query_items call does during a request: it
\* answers (None), raises azure.cosmos.exceptions.CosmosHttpResponseError, or
\* raises another exception of the client (azure.core's ServiceRequestError
\* when the endpoint cannot be reached).
QueryOutcomes == {None, "CosmosHttpResponseError", "ServiceRequestError"}

\* raise HTTPException(status_code=..., detail=...)
HttpError(status, detail) == [NoResp EXCEPT !.status = status, !.detail = detail]
\* An exception no handler catches: the framework answers 500.
Uncaught == HttpError(500, "Internal Server Error")
\* return items[0]
ProductBody(product) ==
    [status |-> 200, error |-> "", message |-> "", detail |-> "",
     order |-> <<>>, list |-> <<>>, product |-> product]

\* The answer to a catalog request: its handler, its product_id, its category
\* or q, what its store query did, and the response. These handlers have no
\* Depends(get_current_user).
CatalogAnswer(kind, pid, text, raised, resp) ==
    [kind |-> kind, authorization |-> NoHeader, current_user |-> None,
     product_id |-> pid, quantity |-> 0, text |-> text, raised |-> raised,
     resp |-> resp]

\* CONTAINS(text, @q) for the texts of the seeded menu and the searches made.
Searches == {"Shot", "Coffee", "Latte"}
Contains(text, q) ==
    <<text, q>> \in {<<"Espresso Shot", "Shot">>, <<"Coffee", "Coffee">>}

\* "SELECT DISTINCT c.category FROM c", then [item["category"] for item in items].
RECURSIVE distinct_categories(_)
distinct_categories(prods) ==
    IF prods = <<>> THEN <<>>
    ELSE LET rest == distinct_categories(SubSeq(prods, 1, Len(prods) - 1))
             c == prods[Len(prods)].category
         IN  IF \E i \in 1..Len(rest) : rest[i] = c THEN rest ELSE Append(rest, c)

\* A catalog request is answered; the containers are only read.
CatalogReturn(answer) ==
    /\ received' = received + 1
    /\ out' = answer
    /\ UNCHANGED <<cosmos, products, cart, orders, nextId, now, reqs, issued, login>>

\* GET /api/v1/products?category=...
Categories == {None, "", "Coffee", "Tea"}
list_products(category, raised) ==
    /\ ~cosmos => raised = None
    /\ CatalogReturn(CatalogAnswer("list_products", None, category, raised,
         IF ~cosmos THEN ListBody(<<>>)
         ELSE IF raised # None THEN ListBody(<<>>)
         ELSE IF category \notin {None, ""}
              THEN ListBody(SelectSeq(products, LAMBDA d : d.category = category))
              ELSE ListBody(products)))

\* GET /api/v1/search?q=...
search_products(q, raised) ==
    /\ ~cosmos => raised = None
    /\ CatalogReturn(CatalogAnswer("search_products", None, q, raised,
         IF ~cosmos THEN ListBody(<<>>)
         ELSE IF raised # None THEN ListBody(<<>>)
         ELSE ListBody(SelectSeq(products,
                 LAMBDA d : Contains(d.name, q) \/ Contains(d.category, q)))))

\* GET /api/v1/products/{product_id}: only CosmosHttpResponseError is caught,
\* and it is answered as a missing product.
get_product(product_id, raised) ==
    /\ ~cosmos => raised = None
    /\ CatalogReturn(CatalogAnswer("get_product", product_id, None, raised,
         IF ~cosmos THEN HttpError(503, "Database not available")
         ELSE IF raised = "CosmosHttpResponseError"
              THEN HttpError(404, "Product not found")
         ELSE IF raised # None THEN Uncaught
         ELSE LET items == query_product(products, product_id)
              IN  IF items # <<>> THEN ProductBody(items[1])
                  ELSE HttpError(404, "Product not found")))

\* GET /api/v1/categories
get_categories(raised) ==
    /\ ~cosmos => raised = None
    /\ CatalogReturn(CatalogAnswer("get_categories", None, None, raised,
         IF ~cosmos THEN ListBody(<<>>)
         ELSE IF raised # None THEN ListBody(<<>>)
         ELSE ListBody(distinct_categories(products))))

NoLogin == [op |-> "none", username |-> "", password |-> "", at |-> 0,
            authorization |-> NoHeader, status |-> 0, user |-> None,
            token |-> NoHeader.token]

\* No run has been recorded.
NoTwin == [phase |-> 1, log |-> <<>>, replies |-> <<>>, steps |-> 0,
           first |-> [cart |-> <<>>, orders |-> <<>>]]

\* init_cosmos(): with both environment variables set the containers are
\* opened and an empty catalog is seeded; without them the handles stay None.
Init ==
    /\ cosmos \in BOOLEAN
    /\ products = IF cosmos THEN SeedProducts ELSE <<>>
    /\ cart = <<>>
    /\ orders = <<>>
    /\ nextId = 1
    /\ now = 0
    /\ received = 0
    /\ reqs = [s \in Slots |-> IdleReq]
    /\ out = Answer(IdleReq, NoResp)
    /\ issued = {}
    /\ login = NoLogin
    /\ pre = [cart |-> <<>>, orders |-> <<>>]
    /\ prev = [out |-> Answer(IdleReq, NoResp), pre |-> [cart |-> <<>>, orders |-> <<>>]]
    /\ twin = NoTwin

\* A request of one of the kinds K arrives in slot s, with its header drawn
\* from H, its product id from P and its quantity from Q.
Arrive(s, K, H, P, Q) ==
    \E kind \in K, h \in H :
      \E pid \in (IF kind \in {"add_to_cart", "remove_from_cart"} THEN P ELSE {None}) :
        \E q \in (IF kind = "add_to_cart" THEN Q ELSE {0}) :
          Receive(s, kind, h, pid, q)

\* Concurrent runs: the three writing handlers, callers with and without a
\* valid token, seeded products.
ConcKinds == {"add_to_cart", "remove_from_cart", "create_order"}
ConcHeaders == {NoHeader, Bearer(ValidToken(DEMO_USERNAME, now))}
ConcProductIds == {"1", "2"}
ConcQuantities == {1, 2}

\* A step of a concurrent run leaves the history variables alone.
InConc(A) == A /\ UNCHANGED <<pre, prev, twin>>

Next ==
    \E s \in Slots :
      \/ InConc(/\ received < MaxConcRequests
              /\ Arrive(s, ConcKinds, ConcHeaders, ConcProductIds, ConcQuantities))
      \/ InConc(add_to_cart_query(s))
      \/ InConc(add_to_cart_store(s))
      \/ InConc(remove_from_cart_query(s))
      \/ InConc(remove_from_cart_delete(s))
      \/ InConc(create_order_query(s))
      \/ InConc(create_order_persist(s))
      \/ InConc(create_order_delete(s))
      \/ InConc(store_failure(s))

\* Requests interleave freely, step by step.
Spec == Init /\ [][Next]_vars

\* The history variables of a sequential run: when a request arrives, the
\* request answered before it and the containers it finds are recorded.
Observe ==
    /\ pre' = IF received' # received THEN [cart |-> cart, orders |-> orders] ELSE pre
    /\ prev' = IF received' # received THEN [out |-> out, pre |-> pre] ELSE prev
    /\ twin' = twin

Quiet == \A s \in Slots : reqs[s].pc = "idle"

\* A step of a sequential run records the history.
InSeq(A) == A /\ Observe

\* Sequential runs: a request arrives only when no other is in flight; every
\* handler, callers with a valid token, seeded and unknown products, any quantity.
SeqHeaders == {Bearer(ValidToken(DEMO_USERNAME, now))}

NextSeq ==
    \E s \in Slots :
      \/ InSeq(/\ received < MaxSeqRequests
             /\ Quiet
             /\ Arrive(s, Kinds, SeqHeaders, ProductIds, Quantities))
      \/ InSeq(get_cart_query(s))
      \/ InSeq(get_cart_enrich(s))
      \/ InSeq(add_to_cart_query(s))
      \/ InSeq(add_to_cart_store(s))
      \/ InSeq(remove_from_cart_query(s))
      \/ InSeq(remove_from_cart_delete(s))
      \/ InSeq(create_order_query(s))
      \/ InSeq(create_order_persist(s))
      \/ InSeq(create_order_delete(s))
      \/ InSeq(get_orders_query(s))
      \/ InSeq(store_failure(s))

SpecSeq == Init /\ [][NextSeq]_vars

\* Runs of the token gate: every handler and every kind of header, requests
\* interleaving.
GateProductIds == {"1"}
GateQuantities == {1}

NextGate ==
    \E s \in Slots :
      \/ InConc(/\ received < MaxGateRequests
                /\ Arrive(s, Kinds, Headers(now), GateProductIds, GateQuantities))
      \/ InConc(get_cart_query(s))
      \/ InConc(get_cart_enrich(s))
      \/ InConc(add_to_cart_query(s))
      \/ InConc(add_to_cart_store(s))
      \/ InConc(remove_from_cart_query(s))
      \/ InConc(remove_from_cart_delete(s))
      \/ InConc(create_order_query(s))
      \/ InConc(create_order_persist(s))
      \/ InConc(create_order_delete(s))
      \/ InConc(get_orders_query(s))
      \/ InConc(store_failure(s))

SpecGate == Init /\ [][NextGate]_vars

\* Runs in which duplicate lines arise and are then removed: add_to_cart and
\* create_order requests interleave, while a remove_from_cart arrives only when
\* no request is in flight and no request arrives until it has been answered.
DupKinds == {"add_to_cart", "create_order"}
NoRemoveInFlight == \A s \in Slots : reqs[s].kind # "remove_from_cart"

NextDup ==
    \E s \in Slots :
      \/ InSeq(/\ received < MaxDupRequests
               /\ NoRemoveInFlight
               /\ Arrive(s, DupKinds, SeqHeaders, ConcProductIds, GateQuantities))
      \/ InSeq(/\ received < MaxDupRequests
               /\ Quiet
               /\ Arrive(s, {"remove_from_cart"}, SeqHeaders, ConcProductIds, GateQuantities))
      \/ InSeq(add_to_cart_query(s))
      \/ InSeq(add_to_cart_store(s))
      \/ InSeq(remove_from_cart_query(s))
      \/ InSeq(remove_from_cart_delete(s))
      \/ InSeq(create_order_query(s))
      \/ InSeq(create_order_persist(s))
      \/ InSeq(create_order_delete(s))
      \/ InSeq(store_failure(s))

SpecDup == Init /\ [][NextDup]_vars

\* Runs of every handler of the API: cart and order requests of a caller with
\* a valid token interleave, and catalog requests are answered in between.
NextCatalog ==
    \/ \E s \in Slots :
         \/ InConc(/\ received < MaxCatalogRequests
                   /\ Arrive(s, Kinds, SeqHeaders, GateProductIds, GateQuantities))
         \/ InConc(get_cart_query(s))
         \/ InConc(get_cart_enrich(s))
         \/ InConc(add_to_cart_query(s))
         \/ InConc(add_to_cart_store(s))
         \/ InConc(remove_from_cart_query(s))
         \/ InConc(remove_from_cart_delete(s))
         \/ InConc(create_order_query(s))
         \/ InConc(create_order_persist(s))
         \/ InConc(create_order_delete(s))
         \/ InConc(get_orders_query(s))
         \/ InConc(store_failure(s))
    \/ \E raised \in QueryOutcomes, category \in Categories :
         InConc(received < MaxCatalogRequests /\ list_products(category, raised))
    \/ \E raised \in QueryOutcomes, q \in Searches :
         InConc(received < MaxCatalogRequests /\ search_products(q, raised))
    \/ \E raised \in QueryOutcomes, product_id \in ProductIds :
         InConc(received < MaxCatalogRequests /\ get_product(product_id, raised))
    \/ \E raised \in QueryOutcomes :
         InConc(received < MaxCatalogRequests /\ get_categories(raised))

SpecCatalog == Init /\ [][NextCatalog]_vars

\* Two runs of one sequence of cart and order requests that differ in the
\* subject of the tokens alone. In the first run requests arrive one at a time
\* with a token for the first subject, and each request is logged with the
\* number of store calls it made, whether the last of them raised, and its
\* response. The application is then started again on empty cart and orders
\* containers, and the second run sends the logged requests with a token for
\* the other subject, the store raising where it raised in the first run.
TwinSubjects == <<DEMO_USERNAME, "alice">>

\* A step of either run: raised tells whether a store call raises in it.
Record(raised) ==
    LET steps == IF received' # received THEN 1 ELSE twin.steps + 1
        answered == \A s \in Slots : reqs'[s].pc = "idle"
        entry == [kind |-> out'.kind, subject |-> out'.current_user,
                  product_id |-> out'.product_id, quantity |-> out'.quantity,
                  steps |-> steps, raised |-> raised, resp |-> out'.resp]
    IN  /\ twin.phase = 2 =>
             LET e == twin.log[Len(twin.replies) + 1]
             IN  raised <=> (e.raised /\ e.steps = steps)
        /\ twin' = [twin EXCEPT
                      !.steps = steps,
                      !.log = IF answered /\ twin.phase = 1 THEN Append(@, entry) ELSE @,
                      !.replies = IF answered /\ twin.phase = 2 THEN Append(@, entry) ELSE @]

InTwin(A, raised) == A /\ Record(raised) /\ UNCHANGED <<pre, prev>>

\* The application starts again: init_cosmos() with the same environment, on
\* containers as empty as they were before the first run.
Restart ==
    /\ twin.phase = 1 /\ Quiet /\ twin.log # <<>>
    /\ twin' = [twin EXCEPT !.phase = 2, !.steps = 0,
                            !.first = [cart |-> cart, orders |-> orders]]
    /\ cart' = <<>> /\ orders' = <<>> /\ nextId' = 1
    /\ UNCHANGED <<cosmos, products, now, received, reqs, out, issued, login, pre, prev>>

NextTwin ==
    \/ \E s \in Slots :
         \/ InTwin(/\ twin.phase = 1 /\ received < MaxTwinRequests /\ Quiet
                   /\ Arrive(s, Kinds, {Bearer(ValidToken(TwinSubjects[1], now))},
                             ProductIds, ConcQuantities), FALSE)
         \/ InTwin(/\ twin.phase = 2 /\ Len(twin.replies) < Len(twin.log) /\ Quiet
                   /\ LET e == twin.log[Len(twin.replies) + 1]
                      IN  Arrive(s, {e.kind}, {Bearer(ValidToken(TwinSubjects[2], now))},
                                 {e.product_id}, {e.quantity}), FALSE)
         \/ InTwin(get_cart_query(s), FALSE)
         \/ InTwin(get_cart_enrich(s), FALSE)
         \/ InTwin(add_to_cart_query(s), FALSE)
         \/ InTwin(add_to_cart_store(s), FALSE)
         \/ InTwin(remove_from_cart_query(s), FALSE)
         \/ InTwin(remove_from_cart_delete(s), FALSE)
         \/ InTwin(create_order_query(s), FALSE)
         \/ InTwin(create_order_persist(s), FALSE)
         \/ InTwin(create_order_delete(s), FALSE)
         \/ InTwin(get_orders_query(s), FALSE)
         \/ InTwin(store_failure(s), TRUE)
    \/ Restart

SpecTwin == Init /\ [][NextTwin]_vars

\* Logged sequential runs of the cart: add_to_cart, get_cart and
\* remove_from_cart arrive one at a time, no store call raises, and every
\* request is logged with its response.
TripKinds == {"add_to_cart", "get_cart", "remove_from_cart"}

NextTrip ==
    \E s \in Slots :
      \/ InTwin(/\ received < MaxTripRequests /\ Quiet
                /\ Arrive(s, TripKinds, SeqHeaders, ConcProductIds, ConcQuantities), FALSE)
      \/ InTwin(get_cart_query(s), FALSE)
      \/ InTwin(get_cart_enrich(s), FALSE)
      \/ InTwin(add_to_cart_query(s), FALSE)
      \/ InTwin(add_to_cart_store(s), FALSE)
      \/ InTwin(remove_from_cart_query(s), FALSE)
      \/ InTwin(remove_from_cart_delete(s), FALSE)

SpecTrip == Init /\ [][NextTrip]_vars

\* Runs in which every store call returns or raises: requests of every
\* handler interleave, and a handler that has a step to take takes it in the end.
HandlerStep(s) ==
    \/ InConc(get_cart_query(s))
    \/ InConc(get_cart_enrich(s))
    \/ InConc(add_to_cart_query(s))
    \/ InConc(add_to_cart_store(s))
    \/ InConc(remove_from_cart_query(s))
    \/ InConc(remove_from_cart_delete(s))
    \/ InConc(create_order_query(s))
    \/ InConc(create_order_persist(s))
    \/ InConc(create_order_delete(s))
    \/ InConc(get_orders_query(s))
    \/ InConc(store_failure(s))

NextLive ==
    \E s \in Slots :
      \/ InConc(/\ received < MaxLiveRequests
                /\ Arrive(s, Kinds, SeqHeaders, GateProductIds, GateQuantities))
      \/ InConc(get_cart_query(s))
      \/ InConc(get_cart_enrich(s))
      \/ InConc(add_to_cart_query(s))
      \/ InConc(add_to_cart_store(s))
      \/ InConc(remove_from_cart_query(s))
      \/ InConc(remove_from_cart_delete(s))
      \/ InConc(create_order_query(s))
      \/ InConc(create_order_persist(s))
      \/ InConc(create_order_delete(s))
      \/ InConc(get_orders_query(s))
      \/ InConc(store_failure(s))

SpecLive == Init /\ [][NextLive]_vars /\ \A s \in Slots : WF_vars(HandlerStep(s))

\* ------------------------------------------------------- the token life cycle

Usernames == {DEMO_USERNAME, "alice"}
Passwords == {DEMO_PASSWORD, "letmein"}

\* POST /auth/login.
Login(username, password) ==
    /\ Cardinality(issued) < MaxTokens
    /\ LET r == auth_login(username, password, now)
       IN  /\ login' = [NoLogin EXCEPT !.op = "login", !.username = username,
                                       !.password = password, !.at = now,
                                       !.status = r.status, !.token = r.token]
           /\ issued' = IF r.status = 200
                         THEN issued \union {[token |-> r.token, username |-> username,
                                                password |-> password, at |-> now]}
                         ELSE issued
    /\ UNCHANGED <<cosmos, products, cart, orders, nextId, now, received, reqs, out, pre, prev,
                   twin>>

\* The Depends(get_current_user) gate on a header a caller sends: a token
\* handed out earlier, under either scheme, or no header.
Authenticate(h) ==
    /\ LET u == get_current_user(h, now)
       IN  login' = [NoLogin EXCEPT !.op = "verify", !.authorization = h, !.at = now,
                                   !.status = u.status, !.user = u.user]
    /\ UNCHANGED <<cosmos, products, cart, orders, nextId, now, received, reqs, out, issued,
                   pre, prev, twin>>

\* Time passes.
Tick ==
    /\ now < MaxTicks * TickMinutes
    /\ now' = now + TickMinutes
    /\ UNCHANGED <<cosmos, products, cart, orders, nextId, received, reqs, out, issued, login,
                   pre, prev, twin>>

NextAuth ==
    \/ \E username \in Usernames, password \in Passwords : Login(username, password)
    \/ \E i \in issued : Authenticate(Bearer(i.token)) \/ Authenticate(Basic(i.token))
    \/ Authenticate(NoHeader)
    \/ Tick

SpecAuth == Init /\ [][NextAuth]_vars

\* ------------------------------------------------------------------ claims

\* The cart lines of the fixed owner, in the container's order.
OwnerLines(store) == SelectSeq(store, LAMBDA d : d.user_id = DEFAULT_USER)
\* The owner's cart lines for one product.
LinesFor(store, pid) ==
    SelectSeq(store, LAMBDA d : d.user_id = DEFAULT_USER /\ d.product_id = pid)
\* The {product_id, quantity} pairs of a sequence of cart lines.
Pairs(lines) ==
    [i \in 1..Len(lines) |-> [product_id |-> lines[i].product_id,
                              quantity |-> lines[i].quantity]]
\* a is what is left of b after some of its first documents are gone.
IsSuffix(a, b) == Len(a) <= Len(b) /\ a = SubSeq(b, Len(b) - Len(a) + 1, Len(b))
Saved(ans) == ans.kind = "add_to_cart" /\ ans.resp.message = "Saved successfully"
Ordered(ans) == ans.kind = "create_order" /\ ans.resp.order # <<>>

\* C1: in every reachable state of a concurrent run the cart holds at most
\* one line per (user_id, product_id) pair.
C1_OneLinePerProduct ==
    \A i, j \in 1..Len(cart) :
      (cart[i].user_id = cart[j].user_id /\ cart[i].product_id = cart[j].product_id)
        => i = j

\* C2: a create_order that runs alone and returns its order has persisted
\* an order whose items are the pairs of the owner's cart lines as they were
\* when it arrived, in that order, and has left the owner's cart empty.
C2_OrderSnapshotsCart ==
    (Quiet /\ Ordered(out)) =>
      LET o == out.resp.order[1]
      IN  /\ o.items = Pairs(OwnerLines(pre.cart))
          /\ \E i \in 1..Len(orders) : orders[i] = o
          /\ OwnerLines(cart) = <<>>

\* C2's case: an order of two lines placed in a sequential run.
C2_Witness ==
    /\ Quiet /\ Ordered(out)
    /\ Len(out.resp.order[1].items) = 2
    /\ Len(pre.cart) = 2

\* C3: when an add_to_cart's store write completes right after another
\* add_to_cart for the same product was answered, and no other request is in
\* flight, the cart holds exactly one line for that product, with the quantity
\* of the request that wrote last.
C3_LastWriteWins ==
    [][\A s \in Slots :
         ( /\ reqs[s].kind = "add_to_cart" /\ reqs[s].pc = "write"
           /\ reqs'[s].pc = "idle" /\ Saved(out')
           /\ Saved(out) /\ out.product_id = reqs[s].product_id
           /\ \A t \in Slots : reqs'[t].pc = "idle" )
         => /\ Len(LinesFor(cart', reqs[s].product_id)) = 1
            /\ LinesFor(cart', reqs[s].product_id)[1].quantity = reqs[s].quantity]_vars

\* C4: two add_to_cart(pid, q) in sequence with the same q leave exactly one
\* line for pid, of quantity q, and the cart as the first call left it.
C4_AddTwiceIsAddOnce ==
    ( /\ Quiet /\ Saved(prev.out) /\ Saved(out)
      /\ out.product_id = prev.out.product_id /\ out.quantity = prev.out.quantity )
    => /\ Len(LinesFor(cart, out.product_id)) = 1
       /\ LinesFor(cart, out.product_id)[1].quantity = out.quantity
       /\ cart = pre.cart

\* C4's case: the same add_to_cart twice in a row, beside another line.
C4_Witness ==
    /\ Quiet /\ Saved(prev.out) /\ Saved(out)
    /\ out.product_id = prev.out.product_id /\ out.quantity = prev.out.quantity
    /\ Len(cart) = 2

\* C5: add_to_cart(pid, q1) then add_to_cart(pid, q2) in sequence leave the
\* line for pid with quantity q2, under the id it had after the first call.
C5_Overwrite ==
    ( /\ Quiet /\ Saved(prev.out) /\ Saved(out)
      /\ out.product_id = prev.out.product_id )
    => /\ Len(LinesFor(cart, out.product_id)) = 1
       /\ Len(LinesFor(pre.cart, out.product_id)) = 1
       /\ LinesFor(cart, out.product_id)[1].quantity = out.quantity
       /\ LinesFor(cart, out.product_id)[1].id = LinesFor(pre.cart, out.product_id)[1].id

\* C5's case: quantity 1 then quantity 2, where the sum would be 3.
C5_Witness ==
    /\ Quiet /\ Saved(prev.out) /\ Saved(out)
    /\ out.product_id = prev.out.product_id
    /\ prev.out.quantity = 1 /\ out.quantity = 2
    /\ prev.pre.cart = <<>>

\* C6: what the claim calls a bad Authorization header at time t.
BadHeader(h, t) ==
    \/ ~h.given
    \/ h.prefix # "Bearer "
    \/ h.token.key # JWT_SECRET_KEY
    \/ h.token.exp < t
    \/ h.token.sub = None

\* C6: a request with a bad header never reaches a handler: it is answered
\* 401 on arrival, in a step that changes no container.
C6_RejectedBeforeStore ==
    [][received' # received =>
         /\ \A s \in Slots :
              (reqs[s].pc = "idle" /\ reqs'[s].pc # "idle")
                => ~BadHeader(reqs'[s].authorization, now)
         /\ (reqs' = reqs /\ BadHeader(out'.authorization, now))
              => /\ out'.resp.status = 401
                 /\ cart' = cart /\ orders' = orders /\ products' = products]_vars

\* C6's case: an expired token is turned away from create_order while the
\* cart holds a line.
C6_Witness ==
    /\ out.kind = "create_order"
    /\ out.authorization = Bearer(ExpiredToken(now))
    /\ out.resp.status = 401
    /\ cart # <<>> /\ orders = <<>>

\* C7: a token handed out by auth_login carries the submitted username and
\* expires 60 minutes after it was issued; the gate returns that username
\* before the expiry and answers 401 at any time after it.
C7_TokenLifetime ==
    \A i \in issued :
      /\ i.token.sub = i.username
      /\ i.token.exp = i.at + 60
      /\ (login.op = "verify" /\ login.authorization = Bearer(i.token)) =>
           /\ login.at < i.token.exp => (login.status = 200 /\ login.user = i.username)
           /\ login.at > i.token.exp => login.status = 401

\* C7's case: a token is presented after its expiry.
C7_Witness ==
    \E i \in issued :
      /\ login.op = "verify" /\ login.authorization = Bearer(i.token)
      /\ login.at > i.token.exp
      /\ login.status = 401

\* C8: auth_login answers 200 with a token exactly for the demo pair, and 401
\* without a token for every other pair; only the demo pair was ever issued one.
C8_LoginOnlyDemoPair ==
    /\ login.op = "login" =>
         /\ login.status = 200 <=>
              (login.username = "barista" /\ login.password = "coffee123")
         /\ login.status = 200 =>
              \E i \in issued : i.token = login.token /\ i.at = login.at
         /\ login.status # 200 => (login.status = 401 /\ login.token = NoHeader.token)
    /\ \A i \in issued : i.username = "barista" /\ i.password = "coffee123"

\* C8's case: the right username with a wrong password is refused.
C8_Witness ==
    /\ login.op = "login" /\ login.username = "barista" /\ login.password # "coffee123"
    /\ login.status = 401
    /\ issued # {}

\* C9: a create_order that failed after persisting its order.
FailedAfterPersist(ans, before, ordersAfter) ==
    /\ ans.kind = "create_order" /\ ans.resp.error # ""
    /\ Len(ordersAfter) = Len(before.orders) + 1

\* C9: when create_order fails on a delete, the order stays persisted, the
\* lines not yet deleted stay in the cart and the caller gets an error body;
\* the retry then persists a second order, holding the lines that were left.
C9_FailureKeepsOrderAndLines ==
    /\ (Quiet /\ FailedAfterPersist(out, pre, orders)) =>
         /\ SubSeq(orders, 1, Len(orders) - 1) = pre.orders
         /\ orders[Len(orders)].items = Pairs(OwnerLines(pre.cart))
         /\ cart # <<>> /\ IsSuffix(cart, pre.cart)
         /\ out.resp.order = <<>>
    /\ (Quiet /\ FailedAfterPersist(prev.out, prev.pre, pre.orders) /\ Ordered(out)) =>
         /\ Len(orders) = Len(prev.pre.orders) + 2
         /\ orders[Len(orders) - 1].items = Pairs(OwnerLines(prev.pre.cart))
         /\ pre.cart # <<>> /\ IsSuffix(pre.cart, prev.pre.cart)
         /\ orders[Len(orders)].items = Pairs(OwnerLines(pre.cart))

\* C9's case: of two lines the first was deleted, the second delete failed,
\* and the retry went through.
C9_Witness ==
    /\ Quiet /\ FailedAfterPersist(prev.out, prev.pre, pre.orders) /\ Ordered(out)
    /\ Len(prev.pre.cart) = 2 /\ Len(pre.cart) = 1
    /\ Len(orders) = 2

\* C10: every step leaves the orders that exist as they are; the one change
\* to the orders container is a new order, of status "confirmed", at its end.
C10_OrdersImmutable ==
    [][/\ Len(orders') >= Len(orders)
       /\ \A i \in 1..Len(orders) : orders'[i] = orders[i]
       /\ \/ Len(orders') = Len(orders)
          \/ /\ Len(orders') = Len(orders) + 1
             /\ orders'[Len(orders')].status = "confirmed"
             /\ \A i \in 1..Len(orders) : orders[i].id # orders'[Len(orders')].id]_vars

\* C10's case: a second order was persisted beside the first, and the cart
\* was written again since.
C10_Witness ==
    /\ Len(orders) = 2
    /\ orders[1].items # <<>>
    /\ cart # <<>>

\* The handler's except clause answered: a store call raised.
StoreFailed(ans) == ans.resp.error = "store error"

\* C11: with the containers open and no store call raising, a create_order
\* that runs alone on an empty cart is not turned away: it answers 200 with an
\* order of no items and status "confirmed", that order is the one document
\* added to the orders, and the cart is still empty.
C11_EmptyCartOrder ==
    ( /\ Quiet /\ cosmos /\ out.kind = "create_order"
      /\ pre.cart = <<>> /\ ~StoreFailed(out) )
    => /\ out.resp.status = 200 /\ out.resp.error = ""
       /\ Ordered(out)
       /\ out.resp.order[1].items = <<>>
       /\ out.resp.order[1].status = "confirmed"
       /\ orders = Append(pre.orders, out.resp.order[1])
       /\ cart = <<>>

\* C11's case: a second order placed on an empty cart.
C11_Witness ==
    /\ Quiet /\ out.kind = "create_order" /\ pre.cart = <<>>
    /\ Ordered(out) /\ out.resp.order[1].items = <<>>
    /\ Len(orders) = 2 /\ cart = <<>>

\* C12: with the containers open and no store call raising, a
\* remove_from_cart that runs alone for a product with no cart line answers the
\* success message and leaves the cart and the orders exactly as it found them.
C12_RemoveMissingIsNoOp ==
    ( /\ Quiet /\ cosmos /\ out.kind = "remove_from_cart"
      /\ LinesFor(pre.cart, out.product_id) = <<>> /\ ~StoreFailed(out) )
    => /\ out.resp = MessageBody("Removed successfully")
       /\ cart = pre.cart
       /\ orders = pre.orders

\* C12's case: a product without a line is removed while the cart holds
\* another product's line and an order exists.
C12_Witness ==
    /\ Quiet /\ out.kind = "remove_from_cart"
    /\ LinesFor(pre.cart, out.product_id) = <<>>
    /\ out.resp.message = "Removed successfully"
    /\ pre.cart # <<>> /\ pre.orders # <<>>

\* The cart lines of every product but pid, in the container's order.
LinesNotFor(store, pid) == SelectSeq(store, LAMBDA d : d.product_id # pid)

\* C13: with the containers open, a remove_from_cart(pid) that runs alone and
\* meets no store failure leaves no line of the owner for pid, however many
\* there were, and leaves the lines of every other product and the orders as
\* it found them.
C13_RemoveDeletesEveryLine ==
    ( /\ Quiet /\ cosmos /\ out.kind = "remove_from_cart" /\ ~StoreFailed(out) )
    => /\ out.resp = MessageBody("Removed successfully")
       /\ LinesFor(cart, out.product_id) = <<>>
       /\ LinesNotFor(cart, out.product_id) = LinesNotFor(pre.cart, out.product_id)
       /\ orders = pre.orders

\* C13's case: the product had two lines, left by two interleaved
\* add_to_cart, beside the line of another product.
C13_Witness ==
    /\ Quiet /\ out.kind = "remove_from_cart" /\ ~StoreFailed(out)
    /\ Len(LinesFor(pre.cart, out.product_id)) = 2
    /\ Len(pre.cart) = 3
    /\ Len(cart) = 1

\* The owner's cart lines whose product is in the catalog.
KnownLines(store, prods) ==
    SelectSeq(store, LAMBDA d : d.user_id = DEFAULT_USER
                                /\ \E k \in 1..Len(prods) : prods[k].id = d.product_id)

\* C14: with the containers open and no store call raising, a get_cart that
\* runs alone answers 200 with a list and no error, holding one entry per cart
\* line of the owner whose product is in the catalog, in the lines' order, with
\* that product's id, name and price and that line's quantity; a line whose
\* product is missing has no entry and raises no error.
C14_CartJoin ==
    ( /\ Quiet /\ cosmos /\ out.kind = "get_cart" /\ ~StoreFailed(out) )
    => LET known == KnownLines(pre.cart, products)
           list == out.resp.list
       IN  /\ out.resp.status = 200 /\ out.resp.error = ""
           /\ Len(list) = Len(known)
           /\ \A i \in 1..Len(known) :
                /\ list[i].id = known[i].product_id
                /\ list[i].quantity = known[i].quantity
                /\ \E k \in 1..Len(products) :
                     /\ products[k].id = list[i].id
                     /\ products[k].name = list[i].name
                     /\ products[k].price = list[i].price

\* C14's case: the cart holds a line for a product of the catalog and a line
\* for a product that is not in it; one entry comes back.
C14_Witness ==
    /\ Quiet /\ out.kind = "get_cart" /\ ~StoreFailed(out)
    /\ Len(OwnerLines(pre.cart)) = 2
    /\ Len(KnownLines(pre.cart, products)) = 1
    /\ Len(out.resp.list) = 1
    /\ out.resp.list[1].quantity = 2

\* C15: in this step a store call of slot s's handler raises: the query, the
\* create, the upsert or a delete fails, or a delete finds its document gone.
Raises(s) ==
    \/ store_failure(s)
    \/ /\ reqs[s].pc = "delete" /\ ~HasId(cart, Head(reqs[s].items).id)
       /\ (remove_from_cart_delete(s) \/ create_order_delete(s))

\* C15: every step in which add_to_cart, remove_from_cart or create_order
\* leaves a store call and answers, answers with status 200; when the store
\* call raised, the body has an error field and the handler is over.
C15_StoreFailureIsErrorBody ==
    [][\A s \in Slots :
         (reqs[s].kind \in ConcKinds /\ reqs[s].pc \in StoreCalls) =>
           /\ reqs'[s].pc = "idle" => out'.resp.status = 200
           /\ Raises(s) => /\ reqs'[s].pc = "idle"
                           /\ out'.resp.status = 200
                           /\ out'.resp.error # ""]_vars

\* C15's case: create_order met a failing delete after its order was persisted,
\* and the caller got a 200 with an error field.
C15_Witness ==
    /\ out.kind = "create_order" /\ StoreFailed(out)
    /\ out.resp.status = 200
    /\ orders # <<>> /\ cart # <<>>

\* C16: the catalog store was unreachable for the request answered last: the
\* handle was never initialised, or the store query raised.
CatalogUnreachable(ans) == ~cosmos \/ ans.raised # None

\* C16: when the catalog store is unreachable, list_products, search_products
\* and get_categories answer 200 with an empty list, and get_product answers 503.
C16_CatalogDegrades ==
    /\ ( /\ out.kind \in {"list_products", "search_products", "get_categories"}
         /\ CatalogUnreachable(out) )
       => out.resp = ListBody(<<>>)
    /\ (out.kind = "get_product" /\ CatalogUnreachable(out))
       => out.resp.status = 503

\* C17: every cart line and every order carries the fixed owner as user_id;
\* and when a sequence of cart and order requests is run a second time with
\* tokens of another subject, each request gets the response it got in the
\* first run, and the run ends with the cart and the orders of the first run.
C17_IdentityIndependent ==
    /\ \A i \in 1..Len(cart) : cart[i].user_id = DEFAULT_USER
    /\ \A i \in 1..Len(orders) : orders[i].user_id = DEFAULT_USER
    /\ \A i \in 1..Len(twin.replies) :
         /\ twin.replies[i].kind = twin.log[i].kind
         /\ twin.replies[i].subject # twin.log[i].subject
         /\ twin.replies[i].resp = twin.log[i].resp
    /\ (twin.phase = 2 /\ Quiet /\ Len(twin.replies) = Len(twin.log))
         => /\ cart = twin.first.cart
            /\ orders = twin.first.orders

\* C17's case: "barista" added a line and ordered; "alice" did the same in the
\* second run and got the same order back.
C17_Witness ==
    /\ twin.phase = 2 /\ Quiet /\ Len(twin.replies) = 2 /\ Len(twin.log) = 2
    /\ twin.log[1].kind = "add_to_cart" /\ twin.log[1].subject = "barista"
    /\ twin.replies[1].subject = "alice"
    /\ twin.replies[2].kind = "create_order" /\ twin.replies[2].resp.order # <<>>
    /\ Len(orders) = 1 /\ orders[1].items # <<>>

\* C18: every cart line in the cart container has a quantity of at least 1.
C18_PositiveQuantity ==
    \A i \in 1..Len(cart) : cart[i].quantity >= 1

\* C19: no step of any handler changes the products container: after the
\* seeding every product document, its stock and price included, stays as it is.
C19_CatalogReadOnly ==
    [][products' = products]_vars

\* C19's case: a line was added and ordered, catalog requests were answered,
\* and the catalog is the seeded one.
C19_Witness ==
    /\ Len(orders) = 1 /\ orders[1].items # <<>>
    /\ cart = <<>>
    /\ out.kind = "get_product" /\ out.resp.status = 200
    /\ products = SeedProducts

\* C20: when get_orders runs alone and its query does not raise, it answers
\* 200 with the orders container as it stands, every document of which is the
\* owner's: nothing is filtered out and nothing is added. An order persisted by
\* the create_order answered just before is in the list, also when that
\* create_order failed on a delete after persisting it.
C20_OrdersListed ==
    [][\A s \in Slots :
         ( /\ reqs[s].kind = "get_orders" /\ reqs[s].pc = "query"
           /\ reqs'[s].pc = "idle" /\ ~store_failure(s) )
         => /\ out'.resp.status = 200
            /\ out'.resp.list = orders
            /\ \A i \in 1..Len(orders) : orders[i].user_id = DEFAULT_USER
            /\ (out.kind = "create_order" /\ Len(orders) = Len(prev.pre.orders) + 1)
                 => /\ out'.resp.list[Len(orders)].items = Pairs(OwnerLines(prev.pre.cart))
                    /\ SubSeq(out'.resp.list, 1, Len(orders) - 1) = prev.pre.orders]_vars

\* C20's case: a create_order persisted its order and failed on the delete;
\* the get_orders after it lists that order beside an earlier, empty one.
C20_Witness ==
    /\ Quiet /\ out.kind = "get_orders"
    /\ FailedAfterPersist(prev.out, prev.pre, pre.orders)
    /\ Len(out.resp.list) = 2
    /\ out.resp.list[1].items = <<>> /\ out.resp.list[2].items # <<>>
    /\ cart # <<>>

\* The product id is in no document of the catalog.
Absent(pid) == \A k \in 1..Len(products) : products[k].id # pid

\* C21: what holds after every step of a sequential run: an add_to_cart for
\* an absent product that was answered "Saved successfully" has left one line
\* for it, with the quantity sent; and a get_cart answer lists no entry for an
\* absent product.
AbsentLineSavedAndHidden ==
    /\ (Quiet /\ Saved(out) /\ Absent(out.product_id))
         => /\ Len(LinesFor(cart, out.product_id)) = 1
            /\ LinesFor(cart, out.product_id)[1].quantity = out.quantity
    /\ (Quiet /\ out.kind = "get_cart")
         => \A i \in 1..Len(out.resp.list) : ~Absent(out.resp.list[i].id)

\* C21, as claimed: add_to_cart for an absent product succeeds and stores a
\* line, no get_cart lists it, and the line leaves the cart only in a step of a
\* remove_from_cart for its product id.
C21_AbsentLineUntilRemove ==
    [][/\ AbsentLineSavedAndHidden'
       /\ \A i \in 1..Len(cart) :
            (Absent(cart[i].product_id) /\ ~HasId(cart', cart[i].id))
              => \E s \in Slots : /\ reqs[s].kind = "remove_from_cart"
                                  /\ reqs[s].product_id = cart[i].product_id]_vars

\* C21, amended: add_to_cart for an absent product succeeds and stores a
\* line, no get_cart lists it, and the line leaves the cart only in a step of a
\* remove_from_cart for its product id or of a create_order, which deletes
\* every line it snapshotted.
C21_AbsentLineUntilRemoveOrOrder ==
    [][/\ AbsentLineSavedAndHidden'
       /\ \A i \in 1..Len(cart) :
            (Absent(cart[i].product_id) /\ ~HasId(cart', cart[i].id))
              => \E s \in Slots :
                   \/ /\ reqs[s].kind = "remove_from_cart"
                      /\ reqs[s].product_id = cart[i].product_id
                   \/ reqs[s].kind = "create_order"]_vars

\* C21's case: a line for the absent product "99" was added, a get_cart
\* answered an empty list while the line was there, and a create_order then
\* took the line out of the cart.
C21_Witness ==
    /\ Quiet /\ Ordered(out)
    /\ Len(LinesFor(pre.cart, "99")) = 1 /\ cart = <<>>
    /\ prev.out.kind = "get_cart" /\ prev.out.resp.list = <<>> /\ prev.out.resp.error = ""
    /\ prev.pre.cart = pre.cart

\* C22: no cart line, identified by its id, is in the snapshots of two
\* create_order requests that have both persisted their order (each is in its
\* delete loop, holding the snapshotted lines it has not deleted yet).
C22_NoLineInTwoOrders ==
    \A s, t \in Slots :
      ( /\ s # t
        /\ reqs[s].kind = "create_order" /\ reqs[s].pc = "delete"
        /\ reqs[t].kind = "create_order" /\ reqs[t].pc = "delete" )
      => \A i \in 1..Len(reqs[s].items), j \in 1..Len(reqs[t].items) :
           reqs[s].items[i].id # reqs[t].items[j].id

\* The ids of a sequence of cart lines.
Ids(lines) == {lines[i].id : i \in 1..Len(lines)}

\* C23: under any interleaving, the order a create_order persists holds the
\* lines of its snapshot and no other, and each step of its delete loop, the
\* one it returns in included, takes out of the cart at most the next line of
\* its snapshot: every line that is not in the snapshot, as one created after
\* the cart query is, is in the cart after the step as it was before.
C23_DeletesOnlySnapshot ==
    [][\A s \in Slots :
         (reqs[s].kind = "create_order" /\ reqs'[s] # reqs[s]) =>
           /\ reqs[s].pc = "persist" =>
                /\ cart' = cart
                /\ orders' # orders =>
                     /\ Len(orders') = Len(orders) + 1
                     /\ orders'[Len(orders')].items = Pairs(reqs[s].items)
           /\ reqs[s].pc = "delete" =>
                /\ Ids(cart) \ Ids(cart') \subseteq {Head(reqs[s].items).id}
                /\ SelectSeq(cart, LAMBDA d : d.id \notin Ids(reqs[s].items))
                     = SelectSeq(cart', LAMBDA d : d.id \notin Ids(reqs[s].items))]_vars

\* C23's case: a create_order has returned its order of product "1", and the
\* line for product "2", created between its cart query and its return, is
\* in the cart.
C23_Witness ==
    /\ \A s \in Slots : reqs[s].pc = "idle"
    /\ Ordered(out)
    /\ Len(out.resp.order[1].items) = 1
    /\ out.resp.order[1].items[1].product_id = "1"
    /\ Len(orders) = 1
    /\ Len(cart) = 1 /\ cart[1].product_id = "2"

\* C24: under any interleaving, a cart line that a step of create_order's
\* delete loop takes out of the cart has, in that step, the quantity of the
\* snapshot, which is the quantity the persisted order records for it.
C24_DeletedQuantityIsOrdered ==
    [][\A s \in Slots :
         ( /\ reqs[s].kind = "create_order" /\ reqs[s].pc = "delete"
           /\ reqs'[s] # reqs[s] /\ cart' # cart )
         => \A i \in 1..Len(cart) :
              cart[i].id = Head(reqs[s].items).id
                => cart[i].quantity = Head(reqs[s].items).quantity]_vars

\* C25: every step of an add_to_cart(pid, q), the create or the upsert
\* included, leaves the cart lines of every other product as they are, id and
\* quantity, and leaves the orders as they are.
C25_AddTouchesOneProduct ==
    [][\A s \in Slots :
         (reqs[s].kind = "add_to_cart" /\ reqs'[s] # reqs[s]) =>
           /\ LinesNotFor(cart', reqs[s].product_id) = LinesNotFor(cart, reqs[s].product_id)
           /\ orders' = orders]_vars

\* C25's case: an add_to_cart has overwritten the quantity of its product's
\* line while the cart held another product's line and an order existed.
C25_Witness ==
    /\ Quiet /\ Saved(out)
    /\ Len(LinesFor(pre.cart, out.product_id)) = 1
    /\ LinesFor(pre.cart, out.product_id)[1].quantity # out.quantity
    /\ LinesFor(cart, out.product_id)[1].quantity = out.quantity
    /\ LinesNotFor(cart, out.product_id) # <<>>
    /\ orders # <<>>

\* C26: in a sequential run without store failure, the ids of the entries of
\* a get_cart answer are the product ids of the cart lines whose product is in
\* the catalog; and when get_cart, remove_from_cart(pid) and get_cart follow
\* one another, the second list has no entry with id pid and is the first list
\* without its entries of id pid, every other entry as it was.
C26_RoundTrip ==
    /\ (Quiet /\ out.kind = "get_cart") =>
         /\ Len(out.resp.list) = Len(KnownLines(cart, products))
         /\ \A i \in 1..Len(out.resp.list) :
              out.resp.list[i].id = KnownLines(cart, products)[i].product_id
    /\ \A i \in 1..(Len(twin.log) - 2) :
         ( /\ twin.log[i].kind = "get_cart"
           /\ twin.log[i + 1].kind = "remove_from_cart"
           /\ twin.log[i + 2].kind = "get_cart" )
         => /\ \A k \in 1..Len(twin.log[i + 2].resp.list) :
                 twin.log[i + 2].resp.list[k].id # twin.log[i + 1].product_id
            /\ twin.log[i + 2].resp.list
                 = SelectSeq(twin.log[i].resp.list,
                             LAMBDA e : e.id # twin.log[i + 1].product_id)

\* C26's case: get_cart listed two entries, the product of the first was
\* removed, and the next get_cart listed the other entry alone.
C26_Witness ==
    /\ Quiet /\ Len(twin.log) = 5
    /\ twin.log[3].kind = "get_cart" /\ Len(twin.log[3].resp.list) = 2
    /\ twin.log[4].kind = "remove_from_cart"
    /\ twin.log[4].product_id = twin.log[3].resp.list[1].id
    /\ twin.log[5].kind = "get_cart"
    /\ twin.log[5].resp.list = <<twin.log[3].resp.list[2]>>

\* C27: an upper bound on the store calls a handler in state r still has to
\* make, the cart being store: one per line of the query's result and one for
\* the query or the write itself.
CallsLeft(r, store) ==
    CASE r.pc = "idle" -> 0
      [] r.pc = "query" -> Len(store) + 2
      [] r.pc = "persist" -> Len(r.items) + 1
      [] r.pc = "delete" -> Len(r.items)
      [] OTHER -> 1

\* C27: every step of a handler brings down the number of store calls it has
\* left, whatever the other requests do to the cart in between, so no handler
\* goes back to a call it has made; and when every store call returns or
\* raises, every request that has arrived is answered in the end.
C27_EveryRequestAnswered ==
    /\ [][\A s \in Slots :
            (reqs[s].pc # "idle" /\ reqs'[s] # reqs[s])
              => CallsLeft(reqs'[s], cart') < CallsLeft(reqs[s], cart)]_vars
    /\ \A s \in Slots : (reqs[s].pc # "idle") ~> (reqs[s].pc = "idle")

\* C27's case: a create_order and a remove_from_cart are both about to delete
\* the same cart line; the delete of one of them will find it gone.
C27_Witness ==
    /\ reqs[1].kind = "create_order" /\ reqs[1].pc = "delete"
    /\ reqs[2].kind = "remove_from_cart" /\ reqs[2].pc = "delete"
    /\ Head(reqs[1].items).id = Head(reqs[2].items).id
    /\ orders # <<>>

====
